---------------------------- MODULE Spec2Model ----------------------------
(***************************************************************************)
(* A model of lab::vector<T, std::allocator<T>> (vector.h) and of          *)
(* lab::rational_t<IntT> (rational.h).                                     *)
(*                                                                         *)
(* The vector part is a state machine over named vector objects and a heap *)
(* of buffers handed out by std::allocator.  Every member function is one  *)
(* action; inside an action the member's code is evaluated by operators    *)
(* that thread an execution record (objects, heap, pending exception), so  *)
(* that reserve, clear, sanitize and the temporaries of insert are part of *)
(* the member that calls them.                                             *)
(*                                                                         *)
(* A buffer is modelled by the slots [start, finish) that hold elements;   *)
(* the members never read a slot at or past finish.                        *)
(***************************************************************************)
EXTENDS Integers, Sequences, FiniteSets, TLC

\* ------------------------------------------------------------------ bounds
MaxVal  == 2    \* element values are 1..MaxVal
MaxSize == 3    \* one vector: calls that grow it are offered while its size is below / within MaxSize
PairSize == 1   \* two vectors: the same bound on each of them
MaxIns  == 2    \* longest caller-side buffer / initializer list handed to a member
NBuf    == 4    \* buffers the allocator can hand out at the same time
MaxOom  == 3    \* an allocation request of a member call can be refused: the 1st .. MaxOom-th
MaxInt  == 2    \* rationals are built from -1 .. MaxInt and the corners of IntT

\* --------------------------------------------------------- program constants
initial_capacity         == 10
capacity_factor          == 2
capacity_sanitize_factor == capacity_factor * 2

\* size_type is an unsigned 64-bit integer.  A size_type value is written as its
\* two's-complement residue: a small negative number r stands for 2^64 + r.
\* Every magnitude of the model is far below 2^63, so sums of residues are
\* exact modulo 2^64.  SizeMax is size_type(-1) = 2^64 - 1.
SizeMax == -1

\* unsigned comparison x < y of two size_type residues
ULt(x, y) == IF (x < 0) = (y < 0) THEN x < y ELSE y < 0

MinOf(a, b) == IF a < b THEN a ELSE b

Vals     == 1 .. MaxVal
BufIds   == 1 .. NBuf
Null     == 0
Objs     == {"v", "w"}                 \* the caller's vector objects
Locals   == {"temp", "rv", "lit"}      \* insert's local, its temporary, vector{value}
AllObjs  == Objs \cup Locals
One      == {"v"}
DataSeqs(N) == UNION {[1 .. k -> Vals] : k \in 0 .. MinOf(MaxIns, N)}

VARIABLES
    vec,      \* vec[o]: alive, start (buffer id), sz = finish - start, cap = end_of_storage - start
    heap,     \* heap[b]: alloc (handed out and not released), data (the slots [start, finish))
    status,   \* "running" | "terminated" (std::terminate) | "ub" (behaviour undefined) | "hung"
    last,     \* the last member call: its name, arguments and outcome
    ra, rb,   \* rational operands
    rres,     \* result of the last rational operation
    rlast     \* the last rational operation and its outcome

vars == <<vec, heap, status, last, ra, rb, rres, rlast>>
vecVars == <<vec, heap, status, last>>
ratVars == <<ra, rb, rres, rlast>>

NoObj   == [alive |-> FALSE, start |-> Null, sz |-> 0, cap |-> 0]
FreeBuf == [alloc |-> FALSE, data |-> <<>>]

Min(S) == CHOOSE x \in S : \A y \in S : x <= y
Prefix(d, n) == SubSeq(d, 1, MinOf(n, Len(d)))

\* the logical contents of object o: the elements at indices 0 .. size-1
ContentsIn(vv, hh, o) == IF vv[o].start \in BufIds THEN Prefix(hh[vv[o].start].data, vv[o].sz) ELSE <<>>
Contents(o) == ContentsIn(vec, heap, o)

\* ----------------------------------------------------- execution records
\* oom: 0 = the allocator refuses nothing; k > 0 = it refuses the k-th request
Exec(oom) ==
    [vec |-> vec, heap |-> heap, oom |-> oom, exc |-> "none", refused |-> FALSE,
     ret |-> Null, ub |-> FALSE]

Stopped(s) == s.exc # "none" \/ s.ub

\* a function declared noexcept: an exception leaving it calls std::terminate
NoExcept(s) == IF s.exc \notin {"none", "terminate"} THEN [s EXCEPT !.exc = "terminate"] ELSE s

\* std::allocator<T>::allocate(n), n > 0: fresh storage, or std::bad_alloc.
\* Storage whose address a vector still holds after releasing it is not handed
\* out again, so that a dangling start keeps denoting released storage.
a_allocate(s, n) ==
    LET free == {b \in BufIds : ~s.heap[b].alloc /\ \A o \in AllObjs : s.vec[o].start # b} IN
    IF s.oom = 1 \/ free = {}
    THEN [s EXCEPT !.exc = "bad_alloc", !.refused = TRUE]
    ELSE [s EXCEPT !.heap[Min(free)] = [alloc |-> TRUE, data |-> <<>>],
                   !.ret = Min(free),
                   !.oom = IF @ = 0 THEN 0 ELSE @ - 1]

allocate(s, n) == IF n # 0 THEN a_allocate(s, n) ELSE [s EXCEPT !.ret = Null]

\* a.deallocate(start, capacity()); releasing storage that is not allocated is undefined
deallocate(s, o) ==
    LET b == s.vec[o].start IN
    IF b \in BufIds /\ s.heap[b].alloc
    THEN [s EXCEPT !.heap[b] = FreeBuf]
    ELSE [s EXCEPT !.ub = TRUE]

create_storage(s, o, capacity) ==
    LET s1 == allocate(s, capacity) IN
    IF Stopped(s1) THEN s1
    ELSE IF s1.ret = Null
    THEN [s1 EXCEPT !.vec[o].start = Null, !.exc = "bad_alloc"]
    ELSE [s1 EXCEPT !.vec[o] = [alive |-> s.vec[o].alive, start |-> s1.ret, sz |-> 0, cap |-> capacity]]

\* assign_content(size, from, to): to[0 .. size) = from[0 .. size), finish = to + size
assign_content(s, o, from) ==
    [s EXCEPT !.heap[s.vec[o].start].data = from, !.vec[o].sz = Len(from)]

assign_fill(s, o, n, value) == assign_content(s, o, [i \in 1 .. n |-> value])

move_content(s, o, from) ==
    LET s1 == [s EXCEPT !.vec[o].start = s.vec[from].start,
                        !.vec[o].sz    = s.vec[from].sz,
                        !.vec[o].cap   = s.vec[from].cap]
    IN create_storage(s1, from, initial_capacity)

clear(s, o) ==
    LET s1 == deallocate(s, o) IN
    IF Stopped(s1) THEN s1 ELSE create_storage(s1, o, initial_capacity)

reserve(s, o, new_capacity) ==
    IF new_capacity = 0 THEN clear(s, o)
    ELSE IF new_capacity = s.vec[o].cap THEN s
    ELSE LET s1 == allocate(s, new_capacity) IN
         IF Stopped(s1) THEN s1
         ELSE LET temp     == s1.ret
                  old      == s.vec[o]
                  new_size == IF new_capacity < old.sz THEN new_capacity ELSE old.sz
                  s2       == [s1 EXCEPT !.heap[temp].data = Prefix(s.heap[old.start].data, new_size)]
                  s3       == deallocate(s2, o)
              IN IF Stopped(s3) THEN s3
                 ELSE [s3 EXCEPT !.vec[o].start = temp,
                                 !.vec[o].sz = new_size,
                                 !.vec[o].cap = new_capacity]

\* sanitize with the growth factor taken for the threshold
sanitize_eager(s, o) ==
    IF s.vec[o].cap > s.vec[o].sz * capacity_factor
    THEN reserve(s, o, s.vec[o].sz * capacity_factor)
    ELSE s

sanitize(s, o) ==
    IF s.vec[o].cap > s.vec[o].sz * capacity_sanitize_factor
    THEN reserve(s, o, s.vec[o].sz * capacity_factor)
    ELSE s


\* ----------------------------------------------------------- constructors
\* the end of a constructor: the object exists unless an exception left it
Born(s, o) ==
    IF s.exc = "none" /\ ~s.ub THEN [s EXCEPT !.vec[o].alive = TRUE]
    ELSE IF s.exc = "terminate" \/ s.ub THEN s
    ELSE [s EXCEPT !.vec[o] = NoObj]

\* vector() noexcept(is_nothrow_default_constructible<std::allocator<T>>) : noexcept(true)
ctor_default(s, o) == Born(NoExcept(create_storage(s, o, initial_capacity)), o)

\* vector(size_type n) and vector(size_type n, const_reference value)
ctor_fill(s, o, n, value) ==
    LET s1 == create_storage(s, o, n * capacity_factor) IN
    Born(IF Stopped(s1) THEN s1 ELSE assign_fill(s1, o, n, value), o)

\* vector(size_type n, const_pointer p); p is null, or points at the n elements buf
ctor_raw(s, o, n, isnull, buf) ==
    IF isnull \/ n = 0 THEN Born([s EXCEPT !.exc = "invalid_argument"], o)
    ELSE LET s1 == create_storage(s, o, n * capacity_factor) IN
         Born(IF Stopped(s1) THEN s1 ELSE assign_content(s1, o, SubSeq(buf, 1, n)), o)

\* vector(const vector&) noexcept(is_nothrow_constructible<std::allocator<T>>) : noexcept(true)
ctor_copy(s, o, from) ==
    LET s1 == create_storage(s, o, s.vec[from].sz * capacity_factor) IN
    Born(NoExcept(IF Stopped(s1) THEN s1
                  ELSE assign_content(s1, o, ContentsIn(s1.vec, s1.heap, from))), o)

\* vector(vector&&) noexcept
ctor_move(s, o, from) ==
    LET s1 == create_storage(s, o, s.vec[from].sz * capacity_factor) IN
    Born(NoExcept(IF Stopped(s1) THEN s1 ELSE move_content(s1, o, from)), o)

\* vector(std::initializer_list<T> const&) noexcept(...) : noexcept(true)
ctor_list(s, o, list) ==
    LET s1 == create_storage(s, o, Len(list) * capacity_factor) IN
    Born(NoExcept(IF Stopped(s1) THEN s1 ELSE assign_content(s1, o, list)), o)

\* ~vector()
dtor(s, o) ==
    LET s1 == deallocate(s, o) IN
    IF s1.ub THEN s1 ELSE [s1 EXCEPT !.vec[o] = NoObj]

\* ---------------------------------------------------------------- members
\* vector& operator=(vector&&) noexcept
move_assign(s, o, from) ==
    IF o = from THEN s
    ELSE LET s1 == deallocate(s, o) IN
         NoExcept(IF Stopped(s1) THEN s1 ELSE move_content(s1, o, from))

\* vector& assign(vector const&)
assign(s, o, from) ==
    IF o = from THEN s
    ELSE LET s1 == IF s.vec[o].cap < s.vec[from].sz
                   THEN reserve(s, o, s.vec[from].sz * capacity_factor)
                   ELSE s
         IN IF Stopped(s1) THEN s1
            ELSE assign_content(s1, o, ContentsIn(s1.vec, s1.heap, from))

shrink_to_fit(s, o) == reserve(s, o, s.vec[o].sz)

\* the loop of erase: while (pos + len < size()) { start[pos] = start[pos + len]; ++pos; }
\* pos + len is a size_type sum; a store at index >= capacity lies outside the buffer
RECURSIVE erase_loop(_, _, _, _, _, _)
erase_loop(d, pos, len, size, cap, ub) ==
    IF ULt(pos + len, size)
    THEN IF pos >= cap
         THEN erase_loop(d, pos + 1, len, size, cap, TRUE)
         ELSE LET x  == d[pos + len + 1]
                  d1 == IF pos < Len(d) THEN [d EXCEPT ![pos + 1] = x] ELSE Append(d, x)
              IN erase_loop(d1, pos + 1, len, size, cap, ub)
    ELSE [data |-> d, pos |-> pos, ub |-> ub]

\* vector& erase(size_type pos = 0, size_type len = 0)
erase(s, o, pos, len) ==
    LET v == s.vec[o] IN
    IF ULt(v.sz, pos) THEN s
    ELSE LET len1 == IF len = 0 THEN v.sz ELSE len
             r    == erase_loop(s.heap[v.start].data, pos, len1, v.sz, v.cap, FALSE)
             s1   == [s EXCEPT !.heap[v.start].data = Prefix(r.data, r.pos),
                               !.vec[o].sz = r.pos,
                               !.ub = r.ub]
         IN IF r.ub THEN s1 ELSE sanitize(s1, o)

\* void pop_back()
pop_back(s, o) ==
    IF s.vec[o].sz > 0
    THEN LET b == s.vec[o].start
             s1 == [s EXCEPT !.vec[o].sz = @ - 1,
                             !.heap[b].data = Prefix(@, s.vec[o].sz - 1)]
         IN sanitize(s1, o)
    ELSE s

\* void push_back(const_reference element)
push_back(s, o, element) ==
    LET s1 == IF s.vec[o].cap < s.vec[o].sz + 1
              THEN reserve(s, o, (s.vec[o].sz + 1) * capacity_factor)
              ELSE s
    IN IF Stopped(s1) THEN s1
       ELSE [s1 EXCEPT !.heap[s1.vec[o].start].data = Append(@, element),
                       !.vec[o].sz = @ + 1]

\* reference operator[](size_type pos)
index(s, o, pos) ==
    IF ~ULt(pos, s.vec[o].sz) THEN [s EXCEPT !.exc = "out_of_range"]
    ELSE [s EXCEPT !.ret = s.heap[s.vec[o].start].data[pos + 1]]

\* const_reference operator[](size_type pos) const { return operator[](pos); }
\* inside a const member the call resolves to the const overload itself: the
\* member calls itself without end whatever pos is, and returns nothing
index_const(s, o, pos, build) == [s EXCEPT !.exc = build]

\* an exception propagating out of a block destroys the block's local vector
Unwind(s, local) ==
    IF s.exc = "terminate" \/ s.ub \/ s.exc = "none" THEN s ELSE dtor(s, local)

\* vector& insert(size_type pos, const_pointer p, size_type p_size); p points at
\* the p_size elements buf, outside the vector's own storage.  The stages below
\* are the statements of insert in order, each applied to the state the
\* previous one left; size() does not change before the last statement.
insert_pos(s, o, pos0) == IF ~ULt(pos0, s.vec[o].sz) THEN s.vec[o].sz ELSE pos0

\* ... temp = vector(size() - pos, start + pos): the temporary "rv" is destroyed
\* at the end of the statement
insert_rv_done(s) == IF Stopped(s) THEN s ELSE dtor(s, "rv")
insert_rv_move(s) == IF Stopped(s) THEN s ELSE insert_rv_done(move_assign(s, "temp", "rv"))

\* vector temp; if (pos >= size()) pos = size(); else temp = vector(...);
insert_save(s, o, pos0) ==
    IF Stopped(s) THEN s
    ELSE IF insert_pos(s, o, pos0) = s.vec[o].sz THEN s
    ELSE Unwind(insert_rv_move(ctor_raw(s, "rv", s.vec[o].sz - insert_pos(s, o, pos0), FALSE,
                                        SubSeq(s.heap[s.vec[o].start].data,
                                               insert_pos(s, o, pos0) + 1, s.vec[o].sz))),
                "temp")

\* size_type res_size = size() + p_size; if (capacity() < res_size) reserve(res_size * capacity_factor);
insert_grow(s, o, p_size) ==
    IF Stopped(s) THEN s
    ELSE IF s.vec[o].cap < s.vec[o].sz + p_size
    THEN Unwind(reserve(s, o, (s.vec[o].sz + p_size) * capacity_factor), "temp")
    ELSE s

\* the two copy loops, finish = start + res_size, and the destruction of temp
insert_write(s, o, pos0, buf, p_size) ==
    IF Stopped(s) THEN s
    ELSE dtor([s EXCEPT !.heap[s.vec[o].start].data =
                            Prefix(@, insert_pos(s, o, pos0)) \o SubSeq(buf, 1, p_size)
                            \o (IF insert_pos(s, o, pos0) # s.vec[o].sz
                                THEN ContentsIn(s.vec, s.heap, "temp") ELSE <<>>),
                        !.vec[o].sz = @ + p_size],
              "temp")

insert(s, o, pos0, buf, p_size) ==
    insert_write(insert_grow(insert_save(ctor_default(s, "temp"), o, pos0), o, p_size),
                 o, pos0, buf, p_size)

\* vector& insert(size_type pos, vector const& p, size_type inserted_size = 0)
insert_vector(s, o, pos, p, inserted_size) ==
    LET n == IF inserted_size = 0 THEN s.vec[p].sz ELSE inserted_size IN
    insert(s, o, pos, ContentsIn(s.vec, s.heap, p), n)

\* the temporary vector{value} is destroyed when the call returns
insert_lit_done(s) == IF Stopped(s) THEN s ELSE dtor(s, "lit")

\* vector& insert(size_type pos, const_reference value) { return insert(pos, vector{value}); }
insert_value_call(s, o, pos) ==
    IF Stopped(s) THEN s ELSE Unwind(insert_lit_done(insert_vector(s, o, pos, "lit", 0)), "lit")

insert_value(s, o, pos, value) == insert_value_call(ctor_list(s, "lit", <<value>>), o, pos)

\* ================================================================ rational_t
\* rational_t<IntT> is instantiated with a signed 8-bit IntT (main.cpp:
\* rational_t<char>, char being signed on the build the tests are written for).
\* Operands of *, /, +, - are promoted to int, where nothing of this size
\* overflows; a value stored into an IntT keeps its low IntBits bits.
IntBits  == 8
IntMod   == 2 ^ IntBits
IntMin   == -(2 ^ (IntBits - 1))
IntMax   == 2 ^ (IntBits - 1) - 1

\* conversion int -> IntT
ToIntT(x) == ((x - IntMin) % IntMod) + IntMin

Abs(x) == IF x < 0 THEN -x ELSE x

\* C++ integer division truncates toward zero
TDiv(x, y) == IF (x < 0) = (y < 0) THEN Abs(x) \div Abs(y) ELSE -(Abs(x) \div Abs(y))

RECURSIVE Euclid(_, _)
Euclid(m, n) == IF n = 0 THEN m ELSE Euclid(n, m % n)

\* static int gcd(IntT a, IntT b) { return std::experimental::gcd(a, b); ... }
\* the library computes the greatest common divisor of |a| and |b| and returns
\* it as common_type_t<IntT, IntT> = IntT; the statements after the return are dead
gcd(a, b) == ToIntT(Euclid(Abs(a), Abs(b)))

Rat(n, d)   == [num |-> n, denom |-> d, exc |-> "none"]
Thrown(e)   == [num |-> 0, denom |-> 0, exc |-> e]

\* void check() noexcept
check(n, d) ==
    LET d1 == IF d < 0 THEN ToIntT(-d) ELSE d
        n1 == IF d < 0 THEN ToIntT(-n) ELSE n
    IN Rat(ToIntT(TDiv(n1, gcd(n1, d1))), ToIntT(TDiv(d1, gcd(n1, d1))))

\* rational_t(IntT num, IntT denom) noexcept(false); int arguments are converted to IntT
rational_t(num, denom) ==
    IF ToIntT(denom) = 0 THEN Thrown("invalid_argument")
    ELSE check(ToIntT(num), ToIntT(denom))

\* a friend operator declared noexcept: an exception leaving it calls std::terminate
NoExceptR(r) == IF r.exc # "none" THEN Thrown("terminate") ELSE r

\* an operand that is itself the result of a call that did not return
Strict(x, r) == IF x.exc # "none" THEN Thrown(x.exc) ELSE r

\* unary -
neg(x) == Strict(x, NoExceptR(rational_t(-x.num, x.denom)))

\* binary +
add_denom(l, r) == TDiv(l.denom * r.denom, gcd(l.denom, r.denom))
add_num(l, r, temp_denom) == TDiv(temp_denom, l.denom) * l.num + TDiv(temp_denom, r.denom) * r.num
add(l, r) ==
    Strict(l, Strict(r, NoExceptR(rational_t(add_num(l, r, add_denom(l, r)), add_denom(l, r)))))

\* binary -
sub(l, r) == Strict(l, Strict(r, NoExceptR(add(l, neg(r)))))

\* binary *
mul(l, r) == Strict(l, Strict(r, NoExceptR(rational_t(l.num * r.num, l.denom * r.denom))))

\* binary /
div(l, r) == Strict(l, Strict(r, NoExceptR(rational_t(l.num * r.denom, l.denom * r.num))))

\* operator== ; operator< ; operator>.  The value of a comparison is "true" or
\* "false"; a comparison whose subtraction did not return yields "none"
Bool(p) == IF p THEN "true" ELSE "false"
eq(l, r) == Bool((l.denom = r.denom) /\ (l.num = r.num))
lt_of(d) == IF d.exc # "none" THEN "none" ELSE Bool(d.num < 0)
lt(l, r) == lt_of(sub(l, r))
gt(l, r) == lt(r, l)

\* the arguments the callers construct rationals from: the values around zero
\* and the ends and large powers of two of IntT's range
IntVals == (-1 .. MaxInt) \cup {IntMin, IntMax}

NoRatCall == [op |-> "none", outcome |-> "ok", lt |-> "none", eq |-> "none", gt |-> "none"]
RatCall(op, outcome) ==
    [op |-> op, outcome |-> outcome, lt |-> "none", eq |-> "none", gt |-> "none"]

Value(r) == [num |-> r.num, denom |-> r.denom]

\* ------------------------------------------------------------ the machine
Call(op, o, src, pos, n, buf, val) ==
    [op |-> op, obj |-> o, src |-> src, pos |-> pos, n |-> n, buf |-> buf, val |-> val]

NoCall == [op |-> "none", obj |-> "", src |-> "", pos |-> 0, n |-> 0, buf |-> <<>>, val |-> 0,
           outcome |-> "ok", refused |-> FALSE, ret |-> Null]

Outcome(call, outcome, s) ==
    [op |-> call.op, obj |-> call.obj, src |-> call.src, pos |-> call.pos, n |-> call.n,
     buf |-> call.buf, val |-> call.val,
     outcome |-> outcome, refused |-> s.refused,
     ret |-> IF call.op = "index" /\ outcome = "ok" THEN s.ret ELSE Null]

\* the storage of a live object is allocated
Owns(vv, hh, o) == vv[o].alive /\ vv[o].start \in BufIds /\ hh[vv[o].start].alloc
Dangling(o) == vec[o].alive /\ ~Owns(vec, heap, o)

\* The state after a call.  Where the behaviour is undefined the build decides:
\* the wild access goes through and execution continues with the fields the
\* code computes, or the process is killed at the access.
Commit(call, s) ==
    IF s.ub
    THEN \E killed \in BOOLEAN :
            /\ vec'    = IF killed THEN vec ELSE s.vec
            /\ heap'   = IF killed THEN heap ELSE s.heap
            /\ status' = "ub"
            /\ last'   = Outcome(call, IF killed THEN "ub_killed" ELSE "ub_continues", s)
    ELSE /\ vec'    = s.vec
         /\ heap'   = s.heap
         /\ status' = IF s.exc = "terminate" THEN "terminated" ELSE "running"
         /\ last'   = Outcome(call, IF s.exc = "none" THEN "ok" ELSE s.exc, s)

\* a member call on an object whose storage has been released uses freed memory
Member(o, s, result) == IF Dangling(o) THEN [s EXCEPT !.ub = TRUE] ELSE result

Running == status = "running"
Live(O)   == {o \in O : vec[o].alive}
Unborn(O) == {o \in O : ~vec[o].alive}
Sound(O)  == {o \in O : Owns(vec, heap, o)}
Ooms      == 0 .. MaxOom

Init ==
    /\ vec    = [o \in AllObjs |-> NoObj]
    /\ heap   = [b \in BufIds |-> FreeBuf]
    /\ status = "running"
    /\ last   = NoCall
    /\ ra     = [num |-> 0, denom |-> 1]
    /\ rb     = [num |-> 0, denom |-> 1]
    /\ rres   = [num |-> 0, denom |-> 1]
    /\ rlast  = NoRatCall

\* Every action takes the set O of vector objects the caller works with and the
\* bound N on their sizes; its other inputs are drawn from small sets.

CtorDefault(O, N) ==
    /\ Running
    /\ \E o \in Unborn(O), oom \in Ooms :
          Commit(Call("ctor_default", o, "", 0, 0, <<>>, 0), ctor_default(Exec(oom), o))
    /\ UNCHANGED ratVars

CtorFill(O, N) ==
    /\ Running
    /\ \E o \in Unborn(O), n \in 0 .. N, value \in Vals, oom \in Ooms :
          Commit(Call("ctor_fill", o, "", 0, n, <<>>, value), ctor_fill(Exec(oom), o, n, value))
    /\ UNCHANGED ratVars

CtorRaw(O, N) ==
    /\ Running
    /\ \E o \in Unborn(O), buf \in DataSeqs(N), isnull \in BOOLEAN, oom \in Ooms :
          Commit(Call("ctor_raw", o, "", 0, Len(buf), buf, IF isnull THEN 0 ELSE 1),
                 ctor_raw(Exec(oom), o, Len(buf), isnull, buf))
    /\ UNCHANGED ratVars

CtorCopy(O, N) ==
    /\ Running
    /\ \E o \in Unborn(O), from \in Sound(O), oom \in Ooms :
          Commit(Call("ctor_copy", o, from, 0, 0, <<>>, 0), ctor_copy(Exec(oom), o, from))
    /\ UNCHANGED ratVars

CtorMove(O, N) ==
    /\ Running
    /\ \E o \in Unborn(O), from \in Sound(O), oom \in Ooms :
          Commit(Call("ctor_move", o, from, 0, 0, <<>>, 0), ctor_move(Exec(oom), o, from))
    /\ UNCHANGED ratVars

CtorList(O, N) ==
    /\ Running
    /\ \E o \in Unborn(O), list \in DataSeqs(N), oom \in Ooms :
          Commit(Call("ctor_list", o, "", 0, Len(list), list, 0), ctor_list(Exec(oom), o, list))
    /\ UNCHANGED ratVars

Dtor(O, N) ==
    /\ Running
    /\ \E o \in Live(O) :
          Commit(Call("dtor", o, "", 0, 0, <<>>, 0), dtor(Exec(0), o))
    /\ UNCHANGED ratVars

MoveAssign(O, N) ==
    /\ Running
    /\ \E o \in Live(O), from \in Sound(O), oom \in Ooms :
          Commit(Call("move_assign", o, from, 0, 0, <<>>, 0),
                 Member(o, Exec(oom), move_assign(Exec(oom), o, from)))
    /\ UNCHANGED ratVars

Assign(O, N) ==
    /\ Running
    /\ \E o \in Live(O), from \in Sound(O), oom \in Ooms :
          /\ vec[from].sz <= N
          /\ Commit(Call("assign", o, from, 0, 0, <<>>, 0),
                    Member(o, Exec(oom), assign(Exec(oom), o, from)))
    /\ UNCHANGED ratVars

Clear(O, N) ==
    /\ Running
    /\ \E o \in Live(O), oom \in Ooms :
          Commit(Call("clear", o, "", 0, 0, <<>>, 0), Member(o, Exec(oom), clear(Exec(oom), o)))
    /\ UNCHANGED ratVars

Reserve(O, N) ==
    /\ Running
    /\ \E o \in Live(O), n \in 0 .. N + 1, oom \in Ooms :
          Commit(Call("reserve", o, "", 0, n, <<>>, 0), Member(o, Exec(oom), reserve(Exec(oom), o, n)))
    /\ UNCHANGED ratVars

ShrinkToFit(O, N) ==
    /\ Running
    /\ \E o \in Live(O), oom \in Ooms :
          Commit(Call("shrink_to_fit", o, "", 0, 0, <<>>, 0),
                 Member(o, Exec(oom), shrink_to_fit(Exec(oom), o)))
    /\ UNCHANGED ratVars

Erase(O, N) ==
    /\ Running
    /\ \E o \in Live(O), pos \in 0 .. N + 1, len \in (0 .. N) \cup {SizeMax}, oom \in Ooms :
          /\ vec[o].sz <= N
          /\ Commit(Call("erase", o, "", pos, len, <<>>, 0),
                    Member(o, Exec(oom), erase(Exec(oom), o, pos, len)))
    /\ UNCHANGED ratVars

PopBack(O, N) ==
    /\ Running
    /\ \E o \in Live(O), oom \in Ooms :
          Commit(Call("pop_back", o, "", 0, 0, <<>>, 0), Member(o, Exec(oom), pop_back(Exec(oom), o)))
    /\ UNCHANGED ratVars

PushBack(O, N) ==
    /\ Running
    /\ \E o \in Live(O), value \in Vals, oom \in Ooms :
          /\ vec[o].sz < N
          /\ Commit(Call("push_back", o, "", 0, 0, <<>>, value),
                    Member(o, Exec(oom), push_back(Exec(oom), o, value)))
    /\ UNCHANGED ratVars

Insert(O, N) ==
    /\ Running
    /\ \E o \in Live(O), pos \in 0 .. N + 1, buf \in DataSeqs(N), oom \in Ooms :
          /\ vec[o].sz + Len(buf) <= N
          /\ Commit(Call("insert", o, "", pos, Len(buf), buf, 0),
                    Member(o, Exec(oom), insert(Exec(oom), o, pos, buf, Len(buf))))
    /\ UNCHANGED ratVars

\* p is another vector (its data() lies outside o's storage) and the count is
\* within p's size, so that [p.data(), p.data() + count) holds elements
InsertVector(O, N) ==
    /\ Running
    /\ \E o \in Live(O), p \in Sound(O), pos \in 0 .. N + 1, n \in 0 .. MaxIns, oom \in Ooms :
          /\ p # o
          /\ n <= vec[p].sz
          /\ vec[o].sz + (IF n = 0 THEN vec[p].sz ELSE n) <= N
          /\ Commit(Call("insert_vector", o, p, pos, n, <<>>, 0),
                    Member(o, Exec(oom), insert_vector(Exec(oom), o, pos, p, n)))
    /\ UNCHANGED ratVars

InsertValue(O, N) ==
    /\ Running
    /\ \E o \in Live(O), pos \in 0 .. N + 1, value \in Vals, oom \in Ooms :
          /\ vec[o].sz < N
          /\ Commit(Call("insert_value", o, "", pos, 0, <<>>, value),
                    Member(o, Exec(oom), insert_value(Exec(oom), o, pos, value)))
    /\ UNCHANGED ratVars

Index(O, N) ==
    /\ Running
    /\ \E o \in Live(O), pos \in 0 .. N + 1 :
          Commit(Call("index", o, "", pos, 0, <<>>, 0), Member(o, Exec(0), index(Exec(0), o, pos)))
    /\ UNCHANGED ratVars

\* the endless self-call exhausts the stack, or spins where the build turns the
\* tail call into a jump: either way the program is stuck in the call
IndexConst(O, N) ==
    /\ Running
    /\ \E o \in Live(O), pos \in 0 .. N + 1, build \in {"stack_overflow", "endless_loop"} :
          /\ vec'    = vec
          /\ heap'   = heap
          /\ status' = "hung"
          /\ last'   = Outcome(Call("index_const", o, "", pos, 0, <<>>, 0), build,
                               index_const(Exec(0), o, pos, build))
    /\ UNCHANGED ratVars

\* one vector and every member that needs no second vector
Next ==
    \/ CtorDefault(One, MaxSize) \/ CtorFill(One, MaxSize) \/ CtorRaw(One, MaxSize)
    \/ CtorList(One, MaxSize) \/ Dtor(One, MaxSize)
    \/ Clear(One, MaxSize) \/ Reserve(One, MaxSize) \/ ShrinkToFit(One, MaxSize)
    \/ Erase(One, MaxSize) \/ PopBack(One, MaxSize) \/ PushBack(One, MaxSize)
    \/ Insert(One, MaxSize) \/ InsertValue(One, MaxSize)
    \/ Index(One, MaxSize) \/ IndexConst(One, MaxSize)

Spec == Init /\ [][Next]_vars

\* one vector built, grown and cut down: the members that run sanitize and
\* those that set up the sizes and capacities it sees
NextShrink ==
    \/ CtorDefault(One, MaxSize) \/ CtorFill(One, MaxSize) \/ CtorList(One, MaxSize)
    \/ Dtor(One, MaxSize)
    \/ Clear(One, MaxSize) \/ Reserve(One, MaxSize) \/ ShrinkToFit(One, MaxSize)
    \/ Erase(One, MaxSize) \/ PopBack(One, MaxSize) \/ PushBack(One, MaxSize)

SpecShrink == Init /\ [][NextShrink]_vars

\* two vectors: construction of one from the other, assignment, insertion of
\* one into the other, destruction, and the mutators that move size and capacity
NextPair ==
    \/ CtorDefault(Objs, PairSize) \/ CtorFill(Objs, PairSize) \/ CtorRaw(Objs, PairSize)
    \/ CtorList(Objs, PairSize) \/ CtorCopy(Objs, PairSize) \/ CtorMove(Objs, PairSize)
    \/ Dtor(Objs, PairSize) \/ MoveAssign(Objs, PairSize) \/ Assign(Objs, PairSize)
    \/ InsertVector(Objs, PairSize) \/ PushBack(Objs, PairSize) \/ PopBack(Objs, PairSize)
    \/ Clear(Objs, PairSize)

SpecPair == Init /\ [][NextPair]_vars

\* ------------------------------------------------------- rational actions
\* a call that returns r, throws to the caller, or ends the program
RatReturn(op, r) ==
    /\ rlast'  = RatCall(op, IF r.exc = "none" THEN "ok" ELSE r.exc)
    /\ status' = IF r.exc = "terminate" THEN "terminated" ELSE status
    /\ UNCHANGED <<vec, heap, last>>

\* rational_t<IntT> a(n, d); / b(n, d);
RatCtor ==
    /\ Running
    /\ \E which \in {"a", "b"}, n \in IntVals, d \in IntVals :
          LET r == rational_t(n, d) IN
          /\ ra' = IF which = "a" /\ r.exc = "none" THEN Value(r) ELSE ra
          /\ rb' = IF which = "b" /\ r.exc = "none" THEN Value(r) ELSE rb
          /\ rres' = IF r.exc = "none" THEN Value(r) ELSE rres
          /\ RatReturn("ctor", r)

RatResult(op, r) ==
    /\ Running
    /\ rres' = IF r.exc = "none" THEN Value(r) ELSE rres
    /\ UNCHANGED <<ra, rb>>
    /\ RatReturn(op, r)

A == Rat(ra.num, ra.denom)
B == Rat(rb.num, rb.denom)

RatNeg == RatResult("neg", neg(A))
RatAdd == RatResult("add", add(A, B))
RatSub == RatResult("sub", sub(A, B))
RatMul == RatResult("mul", mul(A, B))
RatDiv == RatResult("div", div(A, B))

\* the expressions (a + b) - b and (a * b) / b of a caller
RatAddSub == RatResult("add_sub", sub(add(A, B), B))
RatMulDiv == RatResult("mul_div", div(mul(A, B), B))

\* a /= b : lhs = lhs / rhs; return lhs;
RatDivAssign ==
    /\ Running
    /\ LET r == NoExceptR(div(A, B)) IN
          /\ ra' = IF r.exc = "none" THEN Value(r) ELSE ra
          /\ rres' = IF r.exc = "none" THEN Value(r) ELSE rres
          /\ UNCHANGED rb
          /\ RatReturn("div_assign", r)

\* a < b, a == b, a > b evaluated one after the other
RatCompare ==
    /\ Running
    /\ rlast' = [RatCall("compare",
                         IF lt(A, B) = "none" \/ gt(A, B) = "none" THEN "terminate" ELSE "ok")
                 EXCEPT !.lt = lt(A, B), !.eq = eq(A, B), !.gt = gt(A, B)]
    /\ status' = IF lt(A, B) = "none" \/ gt(A, B) = "none" THEN "terminated" ELSE status
    /\ UNCHANGED <<vec, heap, last, ra, rb, rres>>

NextRat ==
    \/ RatCtor \/ RatNeg \/ RatAdd \/ RatSub \/ RatMul \/ RatDiv
    \/ RatAddSub \/ RatMulDiv \/ RatDivAssign \/ RatCompare

SpecRat == Init /\ [][NextRat]_vars

\* ======================================================== the claims
\* Claim C1: whatever public mutators (push_back, pop_back, insert, erase,
\* reserve, shrink_to_fit, clear, assign) were called with whatever arguments on
\* a constructed vector, 0 <= size() <= capacity().
C1_SizeWithinCapacity ==
    \A o \in Objs : vec[o].alive => (0 <= vec[o].sz /\ vec[o].sz <= vec[o].cap)

\* The reference sequence of claim C2.  pos, len are size_type values; a
\* negative residue is a value of 2^64 + r, beyond every size.
RefBeyond(x, n) == x < 0 \/ x >= n
RefPushBack(S, v) == Append(S, v)
RefPopBack(S) == IF S = <<>> THEN S ELSE SubSeq(S, 1, Len(S) - 1)
RefErase(S, pos, len) ==
    IF pos < 0 \/ pos > Len(S) THEN S
    ELSE IF len = 0 \/ RefBeyond(len, Len(S)) \/ pos + len >= Len(S) THEN SubSeq(S, 1, pos)
    ELSE SubSeq(S, 1, pos) \o SubSeq(S, pos + len + 1, Len(S))
RefInsert(S, pos, data, count) ==
    LET p == IF RefBeyond(pos, Len(S)) THEN Len(S) ELSE pos IN
    SubSeq(S, 1, p) \o SubSeq(data, 1, count) \o SubSeq(S, p + 1, Len(S))
RefAfter(call, S) ==
    CASE call.op = "push_back" -> RefPushBack(S, call.val)
      [] call.op = "pop_back"  -> RefPopBack(S)
      [] call.op = "erase"     -> RefErase(S, call.pos, call.n)
      [] call.op = "insert"    -> RefInsert(S, call.pos, call.buf, call.n)
      [] OTHER                 -> S

\* Claim C2: a push_back, pop_back, erase or insert (data outside the vector's
\* storage) that returns leaves, at indices 0 .. size-1, the reference sequence
\* updated by that call: appended to, shortened by one, with positions
\* pos .. pos+len-1 (clipped to the end) removed, or with the new elements
\* placed at min(pos, size); reallocations included.
C2_ContentsFollowReference ==
    [][(last'.op \in {"push_back", "pop_back", "erase", "insert"}
           /\ last'.outcome = "ok")
       => ContentsIn(vec', heap', last'.obj) = RefAfter(last', Contents(last'.obj))]_vars

\* a rational in reduced form: positive denominator, nothing in common with the numerator
Reduced(r) == r.denom > 0 /\ Euclid(Abs(r.num), r.denom) = 1

\* Claim C3: every rational constructed from (num, denom) with denom # 0, for
\* all num and denom of IntT (its most negative value included), and every
\* rational an arithmetic operator returns, has denominator > 0 and
\* gcd(|numerator|, denominator) = 1.
C3_ConstructedReduced ==
    (rlast.op \in {"ctor", "neg", "add", "sub", "mul", "div", "div_assign"}
        /\ rlast.outcome = "ok")
    => Reduced(rres)

\* the vector, its contents and its hold on its buffer are what they were
SameVector(o) ==
    /\ vec'[o] = vec[o]
    /\ ContentsIn(vec', heap', o) = Contents(o)
    /\ Owns(vec', heap', o)

Ctors == {"ctor_default", "ctor_fill", "ctor_raw", "ctor_copy", "ctor_move", "ctor_list"}

\* Claim C4: a member call (constructors aside) that fails because the
\* allocator could not satisfy a request leaves the vector as it was before the
\* call: same size, same capacity, same elements, its buffer still allocated
\* and its own.
C4_FailedCallKeepsState ==
    [][(last'.refused /\ last'.op \notin Ctors /\ Owns(vec, heap, last'.obj))
       => SameVector(last'.obj)]_vars

\* Claim C5: v[pos], through operator[] and through operator[] const, returns
\* the element at pos when pos < size and ends with out_of_range when
\* pos >= size; no other outcome, and the vector is left as it was.
C5_IndexedAccess ==
    [][(last'.op \in {"index", "index_const"} /\ Owns(vec, heap, last'.obj))
       => /\ IF last'.pos < vec[last'.obj].sz
             THEN last'.outcome = "ok" /\ last'.ret = Contents(last'.obj)[last'.pos + 1]
             ELSE last'.outcome = "out_of_range"
          /\ SameVector(last'.obj)]_vars

\* Claim C6: with memory available, vector(const vector&) succeeds for a source
\* of any size (0 included) and capacity; the new vector has the source's size
\* and elements in order, a capacity fixed by that size alone (capacity_factor
\* times it), and the source is as it was.
C6_CopyConstruction ==
    [][(last'.op = "ctor_copy" /\ ~last'.refused)
       => /\ last'.outcome = "ok"
          /\ vec'[last'.obj].alive
          /\ vec'[last'.obj].sz = vec[last'.src].sz
          /\ ContentsIn(vec', heap', last'.obj) = Contents(last'.src)
          /\ vec'[last'.obj].cap = capacity_factor * vec[last'.src].sz
          /\ SameVector(last'.src)]_vars

\* Claim C7: moving from a source of any size (0 included), by vector(vector&&)
\* or operator=(vector&&), gives the destination the source's former elements,
\* size and capacity and leaves the source a valid empty vector: size 0,
\* capacity initial_capacity, its buffer allocated.
C7_MoveLeavesSourceEmpty ==
    [][(last'.op \in {"ctor_move", "move_assign"} /\ last'.obj # last'.src /\ ~last'.refused)
       => /\ last'.outcome = "ok"
          /\ vec'[last'.obj].alive
          /\ ContentsIn(vec', heap', last'.obj) = Contents(last'.src)
          /\ vec'[last'.obj].sz = vec[last'.src].sz
          /\ vec'[last'.obj].cap = vec[last'.src].cap
          /\ vec'[last'.src].sz = 0
          /\ vec'[last'.src].cap = initial_capacity
          /\ Owns(vec', heap', last'.src)
          /\ vec'[last'.src].start # vec'[last'.obj].start]_vars

\* Claim C8: for all rationals a and b exactly one of a < b, a == b, a > b is true.
C8_Trichotomy ==
    (rlast.op = "compare" /\ Reduced(ra) /\ Reduced(rb))
    => Cardinality({c \in {"lt", "eq", "gt"} : rlast[c] = "true"}) = 1

\* Claim C9: for all rationals a and b, (a + b) - b == a, and (a * b) / b == a
\* when b's numerator is not 0.
C9_RoundTrips ==
    (Reduced(ra) /\ Reduced(rb)) =>
       /\ rlast.op = "add_sub" => (rlast.outcome = "ok" /\ rres = ra)
       /\ (rlast.op = "mul_div" /\ rb.num # 0) => (rlast.outcome = "ok" /\ rres = ra)

\* Claim C10: a / b and a /= b with b's numerator 0 end in the invalid-argument
\* error of rational_t(n, 0), delivered to the caller (the program runs on);
\* no rational is returned, none with denominator 0 exists, and a is unchanged.
C10_DivisionByZeroThrows ==
    [][(rlast'.op \in {"div", "div_assign"} /\ rb.num = 0 /\ Reduced(ra) /\ Reduced(rb))
       => /\ rlast'.outcome = "invalid_argument"
          /\ status' = "running"
          /\ ra' = ra /\ rres' = rres
          /\ ra'.denom # 0]_vars

\* a pop_back on a non-empty vector, or an erase(pos, len) with pos <= size,
\* that has returned
Removal(call, o) ==
    /\ call.op \in {"pop_back", "erase"}
    /\ call.outcome = "ok"
    /\ call.obj = o
    /\ Owns(vec, heap, o)
    /\ call.op = "pop_back" => vec[o].sz > 0
    /\ call.op = "erase" => (0 <= call.pos /\ call.pos <= vec[o].sz)

\* Claim C11, as stated: at the end of pop_back on a non-empty vector and of
\* erase(pos, len) with pos <= size, for every new size (0 included): if the
\* capacity exceeded 4 x (new size) the capacity is exactly 2 x (new size),
\* otherwise the capacity is unchanged.
C11_ShrinkRuleEverySize ==
    [][\A o \in Objs : Removal(last', o) =>
          IF vec[o].cap > 4 * vec'[o].sz
          THEN vec'[o].cap = 2 * vec'[o].sz
          ELSE vec'[o].cap = vec[o].cap]_vars

\* Claim C11, amended: at the end of pop_back on a non-empty vector and of
\* erase(pos, len) with pos <= size, when the call returns: if the new size is
\* 0 the capacity is initial_capacity (the vector is cleared); if the new size
\* is positive and the capacity exceeded 4 x (new size) the capacity is exactly
\* 2 x (new size); otherwise the capacity is unchanged.
C11_ShrinkRule ==
    [][\A o \in Objs : Removal(last', o) =>
          IF vec'[o].sz = 0
          THEN vec'[o].cap = initial_capacity
          ELSE IF vec[o].cap > 4 * vec'[o].sz
          THEN vec'[o].cap = 2 * vec'[o].sz
          ELSE vec'[o].cap = vec[o].cap]_vars

\* C11 witness: a pop_back has returned and removed the last element; the
\* vector is empty with the capacity of a cleared vector
C11_Witness ==
    /\ last.op = "pop_back" /\ last.outcome = "ok"
    /\ Owns(vec, heap, last.obj)
    /\ vec[last.obj].sz = 0
    /\ vec[last.obj].cap = initial_capacity

\* the live vectors whose storage is buffer b
Owners(b) == {o \in AllObjs : vec[o].alive /\ vec[o].start = b}

\* Claim C12: in every state a running program reaches by constructions
\* (default, fill, raw-buffer, copy, move, initializer-list), assignments,
\* mutations and destructions, each buffer allocated and not yet released is
\* the storage of exactly one live vector: none is shared by two, none is
\* without an owner; once every vector is destroyed no buffer is allocated.
C12_SingleOwner ==
    status = "running" =>
       \A b \in BufIds : heap[b].alloc => Cardinality(Owners(b)) = 1

=============================================================================
